---- MODULE Spec2Model ----
(***************************************************************************)
(* Model of pendulum/parser.py: parse (the dispatcher) and _parse (the     *)
(* classifier / interval reconstructor).  One call is one behaviour:       *)
(* Init draws the call's inputs, parse normalises the options, and _parse  *)
(* either takes the "now" fast path or dispatches on the type of the value *)
(* the grammar parser (base_parse) hands back.                             *)
(***************************************************************************)
EXTENDS Integers, FiniteSets, Sequences, TLC

VARIABLES text, options, clock, ext, pc, parsed, result

vars == <<text, options, clock, ext, pc, parsed, result>>

----------------------------------------------------------------------------
(* Bounds of the explored input space.                                     *)

\* largest |years| of a parsed duration
MaxYears == 1
\* largest |months| of a parsed duration
MaxMonths == 2
\* largest |weeks| of a parsed duration
MaxWeeks == 1
\* largest |remaining days| of a parsed duration
MaxDays == 1

----------------------------------------------------------------------------
(* Values.                                                                 *)

\* Python's None where a timezone is expected
None == "None"

\* Python's None where an instant or a duration is expected
NoneValue == [type |-> "NoneType"]

\* pendulum.tz.timezone.UTC
UTC == "UTC"

\* offset of a timezone from UTC in minutes; a naive value has none
OffsetMinutes(tz) ==
  CASE tz = "UTC" -> 0
    [] tz = "+02:00" -> 120
    [] tz = "-05:00" -> -300
    [] OTHER -> 0

\* a datetime.datetime / pendulum DateTime: fields plus tzinfo
MkDateTime(type, y, mo, d, h, mi, s, us, tz) ==
  [type |-> type, year |-> y, month |-> mo, day |-> d, hour |-> h,
   minute |-> mi, second |-> s, microsecond |-> us, tzinfo |-> tz]

\* the eight fields of a duration, as its constructor takes them
MkDuration(type, y, mo, w, d, h, mi, s, us) ==
  [type |-> type, years |-> y, months |-> mo, weeks |-> w, days |-> d,
   hours |-> h, minutes |-> mi, seconds |-> s, microseconds |-> us]

----------------------------------------------------------------------------
(* Calendar arithmetic of the date/time library.                           *)

IsLeap(y) == (y % 4 = 0 /\ y % 100 # 0) \/ y % 400 = 0

DaysInMonth(y, m) ==
  IF m = 2 THEN (IF IsLeap(y) THEN 29 ELSE 28)
  ELSE IF m \in {4, 6, 9, 11} THEN 30 ELSE 31

Min(a, b) == IF a <= b THEN a ELSE b

\* day number of a civil date (days since 1970-01-01)
DaysFromCivil(y, m, d) ==
  LET yy == IF m <= 2 THEN y - 1 ELSE y
      era == yy \div 400
      yoe == yy - era * 400
      mp == IF m > 2 THEN m - 3 ELSE m + 9
      doy == (153 * mp + 2) \div 5 + d - 1
      doe == yoe * 365 + yoe \div 4 - yoe \div 100 + doy
  IN era * 146097 + doe - 719468

\* civil date <<y, m, d>> of a day number
CivilFromDays(z) ==
  LET zz == z + 719468
      era == zz \div 146097
      doe == zz - era * 146097
      yoe == (doe - doe \div 1460 + doe \div 36524 - doe \div 146096) \div 365
      doy == doe - (365 * yoe + yoe \div 4 - yoe \div 100)
      mp == (5 * doy + 2) \div 153
      d == doy - (153 * mp + 2) \div 5 + 1
      m == IF mp < 10 THEN mp + 3 ELSE mp - 9
      y == yoe + era * 400
  IN <<IF m <= 2 THEN y + 1 ELSE y, m, d>>

\* calendar-length steps keep the day of month, clamped to the month reached
AddYears(dt, n) ==
  [dt EXCEPT !.year = dt.year + n,
             !.day = Min(dt.day, DaysInMonth(dt.year + n, dt.month))]

AddMonths(dt, n) ==
  LET k == dt.year * 12 + (dt.month - 1) + n
      y == k \div 12
      m == (k % 12) + 1
  IN [dt EXCEPT !.year = y, !.month = m, !.day = Min(dt.day, DaysInMonth(y, m))]

AddDays(dt, n) ==
  LET c == CivilFromDays(DaysFromCivil(dt.year, dt.month, dt.day) + n)
  IN [dt EXCEPT !.year = c[1], !.month = c[2], !.day = c[3]]

\* fixed-length steps carry from the time of day into the date
AddSeconds(dt, n) ==
  LET sod == dt.hour * 3600 + dt.minute * 60 + dt.second + n
      carry == sod \div 86400
      r == sod % 86400
  IN [AddDays(dt, carry) EXCEPT !.hour = r \div 3600,
                                !.minute = (r % 3600) \div 60,
                                !.second = r % 60]

AddMicroseconds(dt, n) ==
  LET us == dt.microsecond + n
  IN [AddSeconds(dt, us \div 1000000) EXCEPT !.microsecond = us % 1000000]

\* DateTime.add(years=, months=, weeks=, days=, hours=, minutes=, seconds=,
\* microseconds=): years, then months, then the fixed-length fields
add(dt, years, months, weeks, days, hours, minutes, seconds, microseconds) ==
  LET a == AddYears(dt, years)
      b == AddMonths(a, months)
      c == AddDays(b, weeks * 7)
      d == AddDays(c, days)
      e == AddSeconds(d, hours * 3600)
      f == AddSeconds(e, minutes * 60)
      g == AddSeconds(f, seconds)
  IN AddMicroseconds(g, microseconds)

\* DateTime.subtract(...): the same fields, each taken away
subtract(dt, years, months, weeks, days, hours, minutes, seconds, microseconds) ==
  add(dt, -years, -months, -weeks, -days, -hours, -minutes, -seconds,
      -microseconds)

\* Duration.remaining_days: the days not already counted as weeks
remaining_days(duration) == duration.days

\* Duration.remaining_seconds: the seconds not already counted as minutes
remaining_seconds(duration) == duration.seconds

\* Duration.days as the public type reports it: the total of weeks and days
total_days(duration) == duration.weeks * 7 + duration.days

----------------------------------------------------------------------------
(* Factories of the date/time library.                                     *)

\* pendulum.datetime(y, m, d, h, mi, s, us, tz=tz)
pendulum_datetime(y, mo, d, h, mi, s, us, tz) ==
  MkDateTime("DateTime", y, mo, d, h, mi, s, us, tz)

\* pendulum.instance(obj, tz=tz): the value's own tzinfo, else tz
pendulum_instance(obj, tz) ==
  pendulum_datetime(obj.year, obj.month, obj.day, obj.hour, obj.minute,
                    obj.second, obj.microsecond,
                    IF obj.tzinfo # None THEN obj.tzinfo ELSE tz)

\* pendulum.date(y, m, d)
pendulum_date(y, mo, d) == [type |-> "Date", year |-> y, month |-> mo, day |-> d]

\* pendulum.time(h, mi, s, us)
pendulum_time(h, mi, s, us) ==
  [type |-> "Time", hour |-> h, minute |-> mi, second |-> s, microsecond |-> us]

\* pendulum.duration(years=, months=, weeks=, days=, hours=, ...)
pendulum_duration(y, mo, w, d, h, mi, s, us) ==
  MkDuration("Duration", y, mo, w, d, h, mi, s, us)

\* pendulum.interval(start, end)
pendulum_interval(start, end) == [type |-> "Interval", start |-> start, end |-> end]

\* pendulum.now(): the system clock
pendulum_now == clock

----------------------------------------------------------------------------
(* Inputs of a call.                                                       *)

\* the literal of the fast path, and a text that goes to the grammar parser
Texts == {"now", "<text>"}

\* timezones a caller passes as options["tz"]
OptionZones == {"-05:00", "+02:00"}

\* tzinfo a parsed date-time carries: none, or the offset written in the text
ParsedTzinfo == {None, "+02:00"}

\* instants the system clock and the "now" option take
Instants ==
  {pendulum_datetime(2021, 6, 15, 12, 0, 0, 0, UTC),
   pendulum_datetime(2000, 1, 1, 0, 0, 0, 0, "+02:00")}

\* keyword arguments: a mapping from the keys given to their values
MkOptions(hasTz, tz, hasNow, now) ==
  [k \in (IF hasTz THEN {"tz"} ELSE {}) \cup (IF hasNow THEN {"now"} ELSE {}) |->
     IF k = "tz" THEN tz ELSE now]

\* the option sets of a call: each key is absent, None, or set
OptionSets ==
  {MkOptions(hasTz, tz, hasNow, now) :
     hasTz \in BOOLEAN, tz \in {None} \cup OptionZones,
     hasNow \in BOOLEAN, now \in {NoneValue} \cup Instants}

\* options.get(key, default)
Get(opts, key, default) == IF key \in DOMAIN opts THEN opts[key] ELSE default

\* date and time fields the grammar parser yields
ParsedFields ==
  {<<2021, 1, 1, 0, 0, 0, 0>>,
   <<2020, 2, 29, 12, 30, 0, 0>>,
   <<2021, 1, 31, 23, 59, 59, 999999>>}

\* datetime.datetime values of the grammar parser
ParsedDateTimes ==
  {MkDateTime("datetime", f[1], f[2], f[3], f[4], f[5], f[6], f[7], tz) :
     f \in ParsedFields, tz \in ParsedTzinfo}

\* datetime.date values of the grammar parser
ParsedDates ==
  {[type |-> "date", year |-> f[1], month |-> f[2], day |-> f[3]] :
     f \in ParsedFields}

\* datetime.time values of the grammar parser
ParsedTimes ==
  {[type |-> "time", hour |-> f[4], minute |-> f[5], second |-> f[6],
    microsecond |-> f[7]] : f \in ParsedFields}

\* hours, minutes, seconds, microseconds of a parsed duration
TimeParts == {<<0, 0, 0, 0>>, <<1, 0, 0, 0>>, <<0, 2, 3, 0>>, <<23, 59, 59, 999999>>}

\* durations of the given type; the fields share one sign
DurationsOf(type) ==
  {MkDuration(type, sg * y, sg * mo, sg * w, sg * d,
              sg * tp[1], sg * tp[2], sg * tp[3], sg * tp[4]) :
     sg \in {1, -1}, y \in 0..MaxYears, mo \in 0..MaxMonths, w \in 0..MaxWeeks,
     d \in 0..MaxDays, tp \in TimeParts}

\* parsing._Interval(start, end, duration)
MkInterval(start, end, duration) ==
  [type |-> "_Interval", start |-> start, end |-> end, duration |-> duration]

\* _Interval values: exactly one endpoint replaced by a duration, or both given
ParsedIntervals ==
  {MkInterval(s, NoneValue, d) : s \in ParsedDateTimes, d \in DurationsOf("Duration")}
  \cup
  {MkInterval(NoneValue, e, d) : e \in ParsedDateTimes, d \in DurationsOf("Duration")}
  \cup
  {MkInterval(s, e, NoneValue) : s \in ParsedDateTimes, e \in ParsedDateTimes}

\* results of a type this module has no branch for
UnknownResults == {[type |-> "str"], [type |-> "timedelta"], NoneValue}

\* base_parse(text, **options): what the grammar parser may hand back; the
\* native duration type exists only when the compiled extension is present
base_parse(t, opts, rust) ==
  ParsedDateTimes \cup ParsedDates \cup ParsedTimes \cup ParsedIntervals
  \cup DurationsOf("Duration") \cup UnknownResults
  \cup (IF rust THEN DurationsOf("RustDuration") ELSE {})

\* isinstance(obj, cls): datetime.datetime is a subclass of datetime.date
isinstance(obj, cls) ==
  obj.type = cls \/ (obj.type = "datetime" /\ cls = "date")

----------------------------------------------------------------------------
(* _parse, branch by branch.                                               *)

\* a value handed back to the caller
Returned(v) == [status |-> "returned", value |-> v]

\* a silent default instead of the error
Raised_silentDefault == Returned(NoneValue)

\* raise NotImplementedError
Raised == [status |-> "raised", value |-> [type |-> "NotImplementedError"]]

\* the caller's tz taken before the offset of the text
DateTimeBranch_optionFirst(p, opts) ==
  pendulum_datetime(p.year, p.month, p.day, p.hour, p.minute, p.second,
                    p.microsecond,
                    IF "tz" \in DOMAIN opts /\ opts["tz"] # None THEN opts["tz"]
                    ELSE IF p.tzinfo # None THEN p.tzinfo ELSE UTC)

\* isinstance(parsed, datetime.datetime): pendulum.datetime(..., tz=parsed.tzinfo
\* or options.get("tz", UTC))
DateTimeBranch(p, opts) ==
  pendulum_datetime(p.year, p.month, p.day, p.hour, p.minute, p.second,
                    p.microsecond,
                    IF p.tzinfo # None THEN p.tzinfo ELSE Get(opts, "tz", UTC))

\* isinstance(parsed, datetime.date): pendulum.date(year, month, day)
DateBranch(p) == pendulum_date(p.year, p.month, p.day)

\* isinstance(parsed, datetime.time): pendulum.time(hour, minute, second, microsecond)
TimeBranch(p) == pendulum_time(p.hour, p.minute, p.second, p.microsecond)

\* the duration taken away from the start instead of added
IntervalFromStart_subtract(p, opts) ==
  LET duration == p.duration
      dt == pendulum_instance(p.start, Get(opts, "tz", UTC))
  IN pendulum_interval(
       dt,
       subtract(dt, duration.years, duration.months, duration.weeks,
                remaining_days(duration), duration.hours, duration.minutes,
                remaining_seconds(duration), duration.microseconds))

\* days=duration.days, the total that counts the weeks again
IntervalFromStart_totalDays(p, opts) ==
  LET duration == p.duration
      dt == pendulum_instance(p.start, Get(opts, "tz", UTC))
  IN pendulum_interval(
       dt,
       add(dt, duration.years, duration.months, duration.weeks,
           total_days(duration), duration.hours, duration.minutes,
           remaining_seconds(duration), duration.microseconds))

\* duration and start given: interval(dt, dt.add(...))
IntervalFromStart(p, opts) ==
  LET duration == p.duration
      dt == pendulum_instance(p.start, Get(opts, "tz", UTC))
  IN pendulum_interval(
       dt,
       add(dt, duration.years, duration.months, duration.weeks,
           remaining_days(duration), duration.hours, duration.minutes,
           remaining_seconds(duration), duration.microseconds))

\* duration and end given: interval(dt.subtract(...), dt)
IntervalFromEnd(p, opts) ==
  LET duration == p.duration
      dt == pendulum_instance(p.end, Get(opts, "tz", UTC))
  IN pendulum_interval(
       subtract(dt, duration.years, duration.months, duration.weeks,
                remaining_days(duration), duration.hours, duration.minutes,
                remaining_seconds(duration), duration.microseconds),
       dt)

\* the end zoned like the start instead of on its own
IntervalFromBoth_sharedZone(p, opts) ==
  LET start == pendulum_instance(p.start, Get(opts, "tz", UTC))
  IN pendulum_interval(start, pendulum_instance(p.end, start.tzinfo))

\* no duration: interval(instance(start), instance(end))
IntervalFromBoth(p, opts) ==
  pendulum_interval(pendulum_instance(p.start, Get(opts, "tz", UTC)),
                    pendulum_instance(p.end, Get(opts, "tz", UTC)))

\* isinstance(parsed, _Interval)
IntervalBranch(p, opts) ==
  IF p.duration # NoneValue
  THEN IF p.start # NoneValue THEN IntervalFromStart(p, opts)
       ELSE IntervalFromEnd(p, opts)
  ELSE IntervalFromBoth(p, opts)

\* the Duration rebuilt as a plain timedelta, its years and months dropped
DurationBranch_asTimedelta(p) ==
  pendulum_duration(0, 0, p.weeks, p.days, p.hours, p.minutes, p.seconds,
                    p.microseconds)

\* isinstance(parsed, Duration): return parsed
DurationBranch(p) == p

\* days and weeks copied into each other's place
RustDurationBranch_swapped(p) ==
  pendulum_duration(p.years, p.months, p.days, p.weeks, p.hours, p.minutes,
                    p.seconds, p.microseconds)

\* isinstance(parsed, RustDuration): pendulum.duration(field by field)
RustDurationBranch(p) ==
  pendulum_duration(p.years, p.months, p.weeks, p.days, p.hours, p.minutes,
                    p.seconds, p.microseconds)

\* the test for datetime.date placed before the one for datetime.datetime
Dispatch_dateFirst(p, opts, rust) ==
  IF isinstance(p, "date") THEN Returned(DateBranch(p))
  ELSE IF isinstance(p, "datetime") THEN Returned(DateTimeBranch(p, opts))
  ELSE IF isinstance(p, "time") THEN Returned(TimeBranch(p))
  ELSE IF isinstance(p, "_Interval") THEN Returned(IntervalBranch(p, opts))
  ELSE IF isinstance(p, "Duration") THEN Returned(DurationBranch(p))
  ELSE IF rust /\ isinstance(p, "RustDuration") THEN Returned(RustDurationBranch(p))
  ELSE Raised

\* the chain of isinstance tests, in the order of the source
Dispatch(p, opts, rust) ==
  IF isinstance(p, "datetime") THEN Returned(DateTimeBranch(p, opts))
  ELSE IF isinstance(p, "date") THEN Returned(DateBranch(p))
  ELSE IF isinstance(p, "time") THEN Returned(TimeBranch(p))
  ELSE IF isinstance(p, "_Interval") THEN Returned(IntervalBranch(p, opts))
  ELSE IF isinstance(p, "Duration") THEN Returned(DurationBranch(p))
  ELSE IF rust /\ isinstance(p, "RustDuration") THEN Returned(RustDurationBranch(p))
  ELSE Raised

\* text == "now": return pendulum.now()
NowBranch(opts) == Returned(pendulum_now)

----------------------------------------------------------------------------
(* The call.                                                               *)

Pending == [status |-> "pending", value |-> NoneValue]

\* a caller enters at parse, or at _parse directly
Init ==
  /\ text \in Texts
  /\ options \in OptionSets
  /\ clock \in Instants
  /\ ext \in BOOLEAN
  /\ pc \in {"parse", "_parse"}
  /\ parsed = NoneValue
  /\ result = Pending

\* parse: options["now"] = options.get("now"); return _parse(text, **options)
parse ==
  /\ pc = "parse"
  /\ options' = MkOptions("tz" \in DOMAIN options, Get(options, "tz", None),
                          TRUE, Get(options, "now", NoneValue))
  /\ pc' = "_parse"
  /\ UNCHANGED <<text, clock, ext, parsed, result>>

\* _parse with text == "now"
_parse_now ==
  /\ pc = "_parse"
  /\ text = "now"
  /\ result' = NowBranch(options)
  /\ pc' = "done"
  /\ UNCHANGED <<text, options, clock, ext, parsed>>

\* _parse with any other text: base_parse, then the isinstance chain
_parse ==
  /\ pc = "_parse"
  /\ text # "now"
  /\ \E p \in base_parse(text, options, ext) :
       /\ parsed' = p
       /\ result' = Dispatch(p, options, ext)
  /\ pc' = "done"
  /\ UNCHANGED <<text, options, clock, ext>>

Next == parse \/ _parse_now \/ _parse

Spec == Init /\ [][Next]_vars

----------------------------------------------------------------------------
(* Vocabulary of the properties.                                           *)

\* the call has ended
Done == pc = "done"

\* the call went through the grammar parser and ended
Classified == pc = "done" /\ text # "now"

\* the timezone the precedence rule names for a parsed date-time
ExpectedTz(d) ==
  IF d.tzinfo # None THEN d.tzinfo
  ELSE IF "tz" \in DOMAIN options THEN options["tz"] ELSE UTC

\* v is a DateTime with exactly the date and time fields of d, in zone tz
SameInstantFields(v, d, tz) ==
  /\ v.type = "DateTime"
  /\ v.year = d.year /\ v.month = d.month /\ v.day = d.day
  /\ v.hour = d.hour /\ v.minute = d.minute /\ v.second = d.second
  /\ v.microsecond = d.microsecond
  /\ v.tzinfo = tz

\* position of an instant on the UTC time line: <<day, second of day, microsecond>>
TimeLine(d) ==
  LET s == d.hour * 3600 + d.minute * 60 + d.second - OffsetMinutes(d.tzinfo) * 60
  IN <<DaysFromCivil(d.year, d.month, d.day) + s \div 86400, s % 86400, d.microsecond>>

\* a is not later than b
NotLater(a, b) ==
  LET x == TimeLine(a)
      y == TimeLine(b)
  IN \/ x[1] < y[1]
     \/ x[1] = y[1] /\ x[2] < y[2]
     \/ x[1] = y[1] /\ x[2] = y[2] /\ x[3] <= y[3]

\* every field of the duration is zero or positive
NonNegative(d) ==
  /\ d.years >= 0 /\ d.months >= 0 /\ d.weeks >= 0 /\ d.days >= 0
  /\ d.hours >= 0 /\ d.minutes >= 0 /\ d.seconds >= 0 /\ d.microseconds >= 0

----------------------------------------------------------------------------
(* C1 *)

\* C1: with text "now" and the option now = I, the call returns exactly I,
\* not the instant of the system clock.
C1_NowOverride ==
  (Done /\ text = "now" /\ "now" \in DOMAIN options /\ options["now"] # NoneValue)
    => (result.status = "returned" /\ result.value = options["now"])

----------------------------------------------------------------------------
(* C2 *)

\* C2: a parsed date-time is returned as a DateTime with the parsed date and
\* time fields, in the zone embedded in the text if there is one, else in
\* options["tz"] if the key is given, else in UTC.
C2_TimezonePrecedence ==
  (Classified /\ parsed.type = "datetime")
    => /\ result.status = "returned"
       /\ SameInstantFields(result.value, parsed, ExpectedTz(parsed))

\* an embedded offset wins over a different options["tz"]
C2_Witness ==
  /\ Classified /\ parsed.type = "datetime"
  /\ parsed.tzinfo = "+02:00"
  /\ "tz" \in DOMAIN options /\ options["tz"] = "-05:00"
  /\ result.value.tzinfo = "+02:00"

----------------------------------------------------------------------------
(* C3 *)

\* the parsed endpoint d as a zoned instant
Zoned(d) == MkDateTime("DateTime", d.year, d.month, d.day, d.hour, d.minute,
                       d.second, d.microsecond, ExpectedTz(d))

\* s moved by the fields of duration d, each taken sg times, one field after
\* the other: years, months, weeks, remaining days, hours, minutes, remaining
\* seconds, microseconds
Moved(s, d, sg) ==
  LET s1 == AddYears(s, sg * d.years)
      s2 == AddMonths(s1, sg * d.months)
      s3 == AddDays(s2, sg * 7 * d.weeks)
      s4 == AddDays(s3, sg * d.days)
      s5 == AddSeconds(s4, sg * 3600 * d.hours)
      s6 == AddSeconds(s5, sg * 60 * d.minutes)
      s7 == AddSeconds(s6, sg * d.seconds)
  IN AddMicroseconds(s7, sg * d.microseconds)

\* the interval of the text "2021-01-01/P1M"
JanuaryPlusOneMonth ==
  MkInterval(MkDateTime("datetime", 2021, 1, 1, 0, 0, 0, 0, None), NoneValue,
             MkDuration("Duration", 0, 1, 0, 0, 0, 0, 0, 0))

\* C3: an interval with a duration D and one endpoint: given the start S, the
\* Interval runs from S (zoned) to S + D; given the end E, it runs from E - D
\* to E (zoned); D's fields are applied in the order years, months, weeks,
\* remaining days, hours, minutes, remaining seconds, microseconds.  The
\* start 2021-01-01 with P1M and no options ends at 2021-02-01 UTC.
C3_IntervalFromDuration ==
  (Classified /\ parsed.type = "_Interval" /\ parsed.duration # NoneValue)
    => /\ result.status = "returned"
       /\ result.value.type = "Interval"
       /\ parsed.start # NoneValue =>
            /\ result.value.start = Zoned(parsed.start)
            /\ result.value.end = Moved(Zoned(parsed.start), parsed.duration, 1)
       /\ parsed.start = NoneValue =>
            /\ result.value.end = Zoned(parsed.end)
            /\ result.value.start = Moved(Zoned(parsed.end), parsed.duration, -1)
       /\ (parsed = JanuaryPlusOneMonth /\ "tz" \notin DOMAIN options) =>
            result.value.end = MkDateTime("DateTime", 2021, 2, 1, 0, 0, 0, 0, UTC)

\* a start on 31 January 23:59:59.999999 moved by weeks, days and a time part
\* that carries into the next day
C3_Witness ==
  /\ Classified /\ parsed.type = "_Interval" /\ parsed.duration # NoneValue
  /\ parsed.start # NoneValue /\ parsed.start.day = 31
  /\ parsed.duration.weeks = 1 /\ parsed.duration.days = 1
  /\ parsed.duration.months = 1 /\ parsed.duration.microseconds = 999999
  /\ result.value.start = Zoned(parsed.start)
  /\ result.value.end.month = 3 /\ result.value.end.day = 9

----------------------------------------------------------------------------
(* C4 *)

KnownTypes == {"datetime", "date", "time", "_Interval", "Duration", "RustDuration"}

\* C4: a parser result of none of the known kinds ends the call with
\* NotImplementedError, never with a returned value.
C4_UnknownTagRaises ==
  (Classified /\ parsed.type \notin KnownTypes)
    => /\ result.status = "raised"
       /\ result.value.type = "NotImplementedError"

\* a string handed back by the parser has raised
C4_Witness ==
  /\ Classified /\ parsed.type = "str"
  /\ result.status = "raised"

----------------------------------------------------------------------------
(* C5 *)

\* C5: a duration in the parser's native encoding is returned as a public
\* Duration whose eight fields are the parsed ones, and never raises.
C5_NativeDurationCopied ==
  (Classified /\ parsed.type = "RustDuration")
    => /\ result.status = "returned"
       /\ result.value.type = "Duration"
       /\ result.value.years = parsed.years
       /\ result.value.months = parsed.months
       /\ result.value.weeks = parsed.weeks
       /\ result.value.days = parsed.days
       /\ result.value.hours = parsed.hours
       /\ result.value.minutes = parsed.minutes
       /\ result.value.seconds = parsed.seconds
       /\ result.value.microseconds = parsed.microseconds

\* P1Y2M in the native encoding came back as Duration(years=1, months=2)
C5_Witness ==
  /\ Classified /\ parsed = MkDuration("RustDuration", 1, 2, 0, 0, 0, 0, 0, 0)
  /\ result.value = MkDuration("Duration", 1, 2, 0, 0, 0, 0, 0, 0)

----------------------------------------------------------------------------
(* C6 *)

\* C6: a parser result that already is a public Duration is returned as it
\* is, whatever the options.
C6_DurationPassThrough ==
  (Classified /\ parsed.type = "Duration")
    => /\ result.status = "returned"
       /\ result.value = parsed

\* a Duration with calendar and time fields came back unchanged, tz given
C6_Witness ==
  /\ Classified /\ parsed.type = "Duration"
  /\ parsed.years = 1 /\ parsed.months = 2 /\ parsed.hours = 23
  /\ "tz" \in DOMAIN options
  /\ result.value = parsed

----------------------------------------------------------------------------
(* C7 *)

ReturnedTypes == {"DateTime", "Date", "Time", "Duration", "Interval"}

\* C7: the type of the parser's result alone fixes the kind returned: a
\* date-time gives a DateTime (never a Date), a date gives a Date with the
\* parsed year, month and day, a time gives a Time with the parsed hour,
\* minute, second and microsecond, a duration gives a Duration, an interval
\* gives an Interval; no call returns a value of another kind.
C7_KindByTag ==
  /\ (Done /\ result.status = "returned") => result.value.type \in ReturnedTypes
  /\ (Classified /\ parsed.type \in KnownTypes) =>
       /\ result.status = "returned"
       /\ parsed.type = "datetime" => result.value.type = "DateTime"
       /\ parsed.type = "date" =>
            result.value = [type |-> "Date", year |-> parsed.year,
                            month |-> parsed.month, day |-> parsed.day]
       /\ parsed.type = "time" =>
            result.value = [type |-> "Time", hour |-> parsed.hour,
                            minute |-> parsed.minute, second |-> parsed.second,
                            microsecond |-> parsed.microsecond]
       /\ parsed.type \in {"Duration", "RustDuration"} =>
            result.value.type = "Duration"
       /\ parsed.type = "_Interval" => result.value.type = "Interval"

\* a date-time came back as a DateTime that keeps its time of day
C7_Witness ==
  /\ Classified /\ parsed.type = "datetime" /\ parsed.hour = 12
  /\ result.value.type = "DateTime" /\ result.value.hour = 12

----------------------------------------------------------------------------
(* C8 *)

\* C8 as stated: every Interval returned has start <= end.
C8_IntervalOrdered ==
  (Done /\ result.status = "returned" /\ result.value.type = "Interval")
    => NotLater(result.value.start, result.value.end)

\* C8 amended: an Interval rebuilt from one endpoint and a duration whose
\* fields are all zero or positive has start <= end.
C8_OrderedForNonNegativeDuration ==
  (/\ Classified /\ parsed.type = "_Interval" /\ parsed.duration # NoneValue
   /\ NonNegative(parsed.duration))
    => /\ result.status = "returned"
       /\ result.value.type = "Interval"
       /\ NotLater(result.value.start, result.value.end)

\* a start moved forward by a month: the end is strictly later
C8_Witness ==
  /\ Classified /\ parsed.type = "_Interval" /\ parsed.duration # NoneValue
  /\ parsed.start # NoneValue
  /\ NonNegative(parsed.duration) /\ parsed.duration.months = 1
  /\ NotLater(result.value.start, result.value.end)
  /\ ~NotLater(result.value.end, result.value.start)

----------------------------------------------------------------------------
(* C9 *)

\* C9: every DateTime returned, directly or as an endpoint of an Interval,
\* carries a timezone, whatever the options: tz absent, set, or None.
C9_TimezoneResolved ==
  (Done /\ result.status = "returned")
    => /\ result.value.type = "DateTime" => result.value.tzinfo # None
       /\ result.value.type = "Interval" =>
            /\ result.value.start.tzinfo # None
            /\ result.value.end.tzinfo # None

----------------------------------------------------------------------------
(* C10 *)

====
